---- MODULE Spec2Model ----
(***************************************************************************)
(* Model of the parking game (class ParkingGame, delta-time variant with   *)
(* chamfered collision polygons and MTV bounce).                           *)
(*                                                                         *)
(* Numbers.  The program computes in IEEE doubles; the model computes in   *)
(* fixed point:                                                            *)
(*   lengths    in 1/100 px            (PX   = 100  per pixel)             *)
(*   speeds     in 1/100 px per second (PX   per px/s)                     *)
(*   angles     in 1/10000 rad         (RAD  = 10000 per radian)           *)
(*   sin, cos, unit vectors scaled by   UNIT = 10000                       *)
(*   times      in milliseconds                                            *)
(* Every division rounds toward zero (Div).                                *)
(***************************************************************************)
EXTENDS Integers, Sequences, FiniteSets, TLC

PX == 10 * 10
RAD == 100 * 100
UNIT == 100 * 100

(***************************************************************************)
(* Arithmetic helpers (Math.abs, Math.min, Math.max, Math.hypot, %).       *)
(***************************************************************************)
Abs(a) == IF a < 0 THEN -a ELSE a

Min(a, b) == IF a < b THEN a ELSE b

Max(a, b) == IF a > b THEN a ELSE b

\* Quotient rounded toward zero, b > 0.
Div(a, b) == IF a >= 0 THEN a \div b ELSE -((-a) \div b)

\* JavaScript remainder a % m: the sign of the result is the sign of a.
JsRem(a, m) == IF a >= 0 THEN a % m ELSE -((-a) % m)

RECURSIVE IsqrtIn(_, _, _)
IsqrtIn(n, lo, hi) ==
  IF lo >= hi THEN lo
  ELSE LET mid == (lo + hi + 1) \div 2
       IN  IF mid * mid <= n THEN IsqrtIn(n, mid, hi) ELSE IsqrtIn(n, lo, mid - 1)

\* Floor of the square root of n, 0 <= n < 2^30.
Isqrt(n) == IsqrtIn(n, 0, 32767)

\* Math.hypot(a, b); exact when one component is zero.
Hypot(a, b) ==
  IF b = 0 THEN Abs(a)
  ELSE IF a = 0 THEN Abs(b)
  ELSE Isqrt(a * a + b * b)

(***************************************************************************)
(* Math.sin, Math.cos, Math.tan on RAD-scaled angles, UNIT-scaled results. *)
(***************************************************************************)
PI == 31416
TWO_PI == 2 * PI
HALF_PI == PI \div 2

\* Product of two UNIT-scaled numbers.
MulU(a, b) == Div(a * b, UNIT)

\* sin x for 0 <= x <= pi/2 by its Taylor polynomial of degree 9.
SinQ(x) ==
  LET x2 == MulU(x, x)
      t3 == Div(MulU(x, x2), 6)
      t5 == Div(MulU(t3, x2), 20)
      t7 == Div(MulU(t5, x2), 42)
      t9 == Div(MulU(t7, x2), 72)
  IN  Min(UNIT, Max(0, x - t3 + t5 - t7 + t9))

\* cos x for 0 <= x <= pi/2 by its Taylor polynomial of degree 10.
CosQ(x) ==
  LET x2 == MulU(x, x)
      t2 == Div(x2, 2)
      t4 == Div(MulU(t2, x2), 12)
      t6 == Div(MulU(t4, x2), 30)
      t8 == Div(MulU(t6, x2), 56)
      t10 == Div(MulU(t8, x2), 90)
  IN  Min(UNIT, Max(0, UNIT - t2 + t4 - t6 + t8 - t10))

Sin(a) ==
  LET r == a % TWO_PI
  IN  IF r <= HALF_PI THEN SinQ(r)
      ELSE IF r <= PI THEN SinQ(PI - r)
      ELSE IF r <= PI + HALF_PI THEN -SinQ(r - PI)
      ELSE -SinQ(TWO_PI - r)

Cos(a) ==
  LET r == a % TWO_PI
  IN  IF r <= HALF_PI THEN CosQ(r)
      ELSE IF r <= PI THEN -CosQ(PI - r)
      ELSE IF r <= PI + HALF_PI THEN -CosQ(r - PI)
      ELSE CosQ(TWO_PI - r)

\* tan a for |a| < pi/2.
Tan(a) == Div(Sin(a) * UNIT, Cos(a))


\* Quotient rounded toward zero, b # 0.
DivS(a, b) == IF b > 0 THEN Div(a, b) ELSE Div(-a, -b)

(***************************************************************************)
(* The canvas element (index.html, not part of the sources): 800 x 600.    *)
(***************************************************************************)
CanvasWidth == 800
CanvasHeight == 600
centerX == (CanvasWidth * PX) \div 2
centerY == (CanvasHeight * PX) \div 2

(***************************************************************************)
(* Constructor literals.                                                   *)
(***************************************************************************)
CarWidth == 90
CarHeight == 45
MaxSpeedPx == 360
AccelerationPx == 100
FrictionPx == 300
WheelbasePx == 70
CollisionInsetX == 8
CollisionInsetY == 6
SpaceHeightPx == 60
InitialGap == 200
minGap == 60
gapStep == 20
SliderMin == 60
SliderMax == 360
SliderStep == 10
CurbHeightPx == 30
CurbOffsetYPx == 160
LaneGapFromCurbPx == 10
winResetDelayMs == 1200
collisionFlashDurationMs == 120
collisionBounceSpeedPx == 220
collisionBounceDurationMs == 140
DragMarginPx == 45
SpawnBackPx == 100
SpawnUpPx == 50
MaxDtMs == 50

maxSpeed == MaxSpeedPx * PX
maxSteerAngle == PI \div 6
steerChangeRate == (8 * RAD) \div 10
curbWidth == CanvasWidth * PX
curbTop == centerY + CurbOffsetYPx * PX
\* Thresholds 0.05 px/s, 0.01 rad, 0.1 px/s, 0.2 rad.
MoveEps == (5 * PX) \div 100
SteerEps == RAD \div 100
StopEps == PX \div 10
AlignTol == (2 * RAD) \div 10

Null == -1

Pt(px, py) == [x |-> px, y |-> py]

(***************************************************************************)
(* Geometry kernel.                                                        *)
(***************************************************************************)
\* Rotate the local point p by (cos, sin) and translate it to (cx, cy).
Place(cx, cy, p, cos, sin) ==
  Pt(cx + Div(p.x * cos - p.y * sin, UNIT), cy + Div(p.x * sin + p.y * cos, UNIT))

\* getRectangleCorners that takes the full extents for the half extents.
getRectangleCornersFullExtent(cx, cy, width, height, angle) ==
  LET local == << Pt(-width, -height), Pt(width, -height),
                  Pt(width, height), Pt(-width, height) >>
      cos == Cos(angle)
      sin == Sin(angle)
  IN  [i \in 1..4 |-> Place(cx, cy, local[i], cos, sin)]

getRectangleCorners(cx, cy, width, height, angle) ==
  LET halfW == width \div 2
      halfH == height \div 2
      local == << Pt(-halfW, -halfH), Pt(halfW, -halfH),
                  Pt(halfW, halfH), Pt(-halfW, halfH) >>
      cos == Cos(angle)
      sin == Sin(angle)
  IN  [i \in 1..4 |-> Place(cx, cy, local[i], cos, sin)]

getChamferedRectPolygon(cx, cy, width, height, angle, insetX, insetY) ==
  LET halfW == width \div 2
      halfH == height \div 2
      ix == Min(Max(insetX, 0), Max(0, halfW - PX))
      iy == Min(Max(insetY, 0), Max(0, halfH - PX))
      local == << Pt(-halfW + ix, -halfH), Pt(halfW - ix, -halfH),
                  Pt(halfW, -halfH + iy), Pt(halfW, halfH - iy),
                  Pt(halfW - ix, halfH), Pt(-halfW + ix, halfH),
                  Pt(-halfW, halfH - iy), Pt(-halfW, -halfH + iy) >>
      cos == Cos(angle)
      sin == Sin(angle)
  IN  [i \in 1..8 |-> Place(cx, cy, local[i], cos, sin)]

\* The vector (vx, vy) divided by its length h, or by 1 when h is 0.
Normalised(vx, vy, h) ==
  IF h = 0 THEN Pt(vx * UNIT, vy * UNIT)
  ELSE Pt(Div(vx * UNIT, h), Div(vy * UNIT, h))

\* The perpendicular of the edge p1 -> p2, normalised.
axisOfEdge(p1, p2) ==
  Normalised(-(p2.y - p1.y), p2.x - p1.x, Hypot(-(p2.y - p1.y), p2.x - p1.x))

\* One normal per edge; an edge of length 0 yields the axis (0, 0).
getAxes(points) ==
  [i \in 1..Len(points) |-> axisOfEdge(points[i], points[(i % Len(points)) + 1])]

Dot(p, axis) == p.x * axis.x + p.y * axis.y

\* The interval << lo, hi >> widened to hold the projection d.
Widen(d, interval) == << Min(d, interval[1]), Max(d, interval[2]) >>

RECURSIVE ProjectFrom(_, _, _)
ProjectFrom(points, axis, i) ==
  IF i >= Len(points) THEN << Dot(points[i], axis), Dot(points[i], axis) >>
  ELSE Widen(Dot(points[i], axis), ProjectFrom(points, axis, i + 1))

\* <<min, max>> of the dot products, UNIT-scaled.
projectPointsOnAxis(points, axis) == ProjectFrom(points, axis, 1)

\* Sum of the coordinates c ("x" or "y") of the points from index i on.
RECURSIVE SumFrom(_, _, _)
SumFrom(points, c, i) ==
  IF i > Len(points) THEN 0
  ELSE (IF c = "x" THEN points[i].x ELSE points[i].y) + SumFrom(points, c, i + 1)

getPolygonCenter(points) ==
  LET n == Max(Len(points), 1)
  IN  Pt(Div(SumFrom(points, "x", 1), n), Div(SumFrom(points, "y", 1), n))

NoMTV == [isNull |-> TRUE, x |-> 0, y |-> 0]

Vec(vx, vy) == [isNull |-> FALSE, x |-> vx, y |-> vy]

\* min(maxA, maxB) - max(minA, minB) of two projections.
overlapOf(a, b) == Min(a[2], b[2]) - Max(a[1], b[1])

\* orient that keeps the edge normal as it is.
orientAsIs(axis, centerA, centerB) == Vec(axis.x, axis.y)

\* The axis turned to point from centerA to centerB.
orient(axis, centerA, centerB) ==
  IF (centerB.x - centerA.x) * axis.x + (centerB.y - centerA.y) * axis.y < 0
  THEN Vec(-axis.x, -axis.y)
  ELSE Vec(axis.x, axis.y)

\* The result after the last axis: the axis sep scaled by the overlap best.
mtvResult(best, sep) ==
  [collides |-> TRUE,
   mtv |-> IF sep.isNull THEN Vec(0, 0)
           ELSE Vec(Div(sep.x * Div(best, UNIT), UNIT),
                    Div(sep.y * Div(best, UNIT), UNIT)),
   overlap |-> best]

\* The loop over the axes from index i on; best is the smallest overlap so
\* far (Null for Infinity) and sep the axis that gave it.
RECURSIVE SatLoop(_, _, _, _, _, _, _, _)
RECURSIVE SatAxis(_, _, _, _, _, _, _, _, _)
SatLoop(axes, i, pointsA, pointsB, centerA, centerB, best, sep) ==
  IF i > Len(axes) THEN mtvResult(best, sep)
  ELSE SatAxis(axes, i, pointsA, pointsB, centerA, centerB, best, sep,
               overlapOf(projectPointsOnAxis(pointsA, axes[i]),
                         projectPointsOnAxis(pointsB, axes[i])))

SatAxis(axes, i, pointsA, pointsB, centerA, centerB, best, sep, overlap) ==
  IF overlap <= 0
  THEN [collides |-> FALSE, mtv |-> NoMTV, overlap |-> overlap]
  ELSE IF best = Null \/ overlap < best
  THEN SatLoop(axes, i + 1, pointsA, pointsB, centerA, centerB, overlap,
               orient(axes[i], centerA, centerB))
  ELSE SatLoop(axes, i + 1, pointsA, pointsB, centerA, centerB, best, sep)

\* polygonCollisionMTV that tests the axes of pointsA only.
polygonCollisionMTVOwnAxes(pointsA, pointsB) ==
  SatLoop(getAxes(pointsA), 1, pointsA, pointsB,
          getPolygonCenter(pointsA), getPolygonCenter(pointsB), Null, NoMTV)

polygonCollisionMTV(pointsA, pointsB) ==
  SatLoop(getAxes(pointsA) \o getAxes(pointsB), 1, pointsA, pointsB,
          getPolygonCenter(pointsA), getPolygonCenter(pointsB), Null, NoMTV)

\* Does the ray from (px, py) cross the edge (xj, yj) -> (xi, yi)?
crosses(px, py, xi, yi, xj, yj) ==
  /\ (yi > py) # (yj > py)
  /\ px < DivS((xj - xi) * (py - yi), yj - yi) + xi

\* Even-odd ray crossing; the vertex before i is i - 1, or the last one.
pointInPolygon(px, py, points) ==
  Cardinality({i \in 1..Len(points) :
                 crosses(px, py, points[i].x, points[i].y,
                         points[IF i = 1 THEN Len(points) ELSE i - 1].x,
                         points[IF i = 1 THEN Len(points) ELSE i - 1].y)}) % 2 = 1

(***************************************************************************)
(* State: the fields of the ParkingGame object that the update step, the   *)
(* event handlers and checkParking read or write, and the clock.           *)
(***************************************************************************)
VARIABLES
  car,                    \* x, y, angle, speed, steerAngle, collided, lastDirection
  keys,                   \* up, down, left, right
  parkedCars,             \* the two parked cars
  parkingSpace,           \* x, y, width, height
  gapBetweenCars,         \* px
  winCount,
  winLatched,
  winResetAtMs,           \* Null or a timestamp
  isDragging,
  dragOffsetX,
  dragOffsetY,
  collisionFlashUntilMs,
  collisionBounceUntilMs,
  collisionBounceDir,     \* UNIT-scaled vector
  collisionMTV,           \* NoMTV or the MTV of the last collision
  lastCollision,          \* "none", "car1", "car2", "curb"
  lastFrameAtMs,          \* Null or the timestamp of the last frame
  now,                    \* the clock read by Date.now() and by the frame callback
  frames,                 \* frames delivered so far
  events,                 \* input events delivered so far
  sliderInputs,           \* 1 once the gap slider has been used
  step                    \* what the last step was and which branches it took

vars == << car, keys, parkedCars, parkingSpace, gapBetweenCars, winCount,
           winLatched, winResetAtMs, isDragging, dragOffsetX, dragOffsetY,
           collisionFlashUntilMs, collisionBounceUntilMs, collisionBounceDir,
           collisionMTV, lastCollision, lastFrameAtMs, now, frames, events,
           sliderInputs, step >>

\* The object as one record, for the operators that model its methods.
This ==
  [car |-> car, keys |-> keys, parkedCars |-> parkedCars,
   parkingSpace |-> parkingSpace, gapBetweenCars |-> gapBetweenCars,
   winCount |-> winCount, winLatched |-> winLatched,
   winResetAtMs |-> winResetAtMs, isDragging |-> isDragging,
   dragOffsetX |-> dragOffsetX, dragOffsetY |-> dragOffsetY,
   collisionFlashUntilMs |-> collisionFlashUntilMs,
   collisionBounceUntilMs |-> collisionBounceUntilMs,
   collisionBounceDir |-> collisionBounceDir, collisionMTV |-> collisionMTV,
   lastCollision |-> lastCollision]

Install(result) ==
  \E g \in {result} :
  /\ car' = g.car
  /\ keys' = g.keys
  /\ parkedCars' = g.parkedCars
  /\ parkingSpace' = g.parkingSpace
  /\ gapBetweenCars' = g.gapBetweenCars
  /\ winCount' = g.winCount
  /\ winLatched' = g.winLatched
  /\ winResetAtMs' = g.winResetAtMs
  /\ isDragging' = g.isDragging
  /\ dragOffsetX' = g.dragOffsetX
  /\ dragOffsetY' = g.dragOffsetY
  /\ collisionFlashUntilMs' = g.collisionFlashUntilMs
  /\ collisionBounceUntilMs' = g.collisionBounceUntilMs
  /\ collisionBounceDir' = g.collisionBounceDir
  /\ collisionMTV' = g.collisionMTV
  /\ lastCollision' = g.lastCollision

(***************************************************************************)
(* Layout.                                                                 *)
(***************************************************************************)
recomputeParkingLayout(g) ==
  LET laneY == curbTop - LaneGapFromCurbPx * PX - g.parkingSpace.height \div 2
      carWidth == g.parkedCars[1].width
      offset == (g.gapBetweenCars * PX + carWidth) \div 2
  IN  [g EXCEPT
         !.parkingSpace = [@ EXCEPT !.x = centerX, !.y = laneY,
                                    !.width = g.gapBetweenCars * PX],
         !.parkedCars = << [@[1] EXCEPT !.x = centerX - offset, !.y = laneY],
                           [@[2] EXCEPT !.x = centerX + offset, !.y = laneY] >>]

setInitialCarPosition(g) ==
  LET laneYInit == curbTop - LaneGapFromCurbPx * PX - CarHeight * PX - SpawnUpPx * PX
  IN  [g EXCEPT
         !.car = [@ EXCEPT
                    !.x = centerX - ((g.gapBetweenCars * PX) \div 2 + CarWidth * PX)
                          - SpawnBackPx * PX,
                    !.y = laneYInit,
                    !.speed = 0,
                    !.steerAngle = 0,
                    !.lastDirection = 1,
                    !.angle = 0]]

\* The literals the constructor assigns before it calls the two methods above.
Constructed ==
  [car |-> [x |-> 100 * PX, y |-> 300 * PX, angle |-> 0, speed |-> 0,
            steerAngle |-> 0, collided |-> FALSE, lastDirection |-> 1],
   keys |-> [up |-> FALSE, down |-> FALSE, left |-> FALSE, right |-> FALSE],
   parkedCars |-> << [x |-> centerX - 120 * PX, y |-> centerY,
                      width |-> CarWidth * PX, height |-> CarHeight * PX,
                      angle |-> 0, collisionInsetX |-> CollisionInsetX * PX,
                      collisionInsetY |-> CollisionInsetY * PX],
                     [x |-> centerX + 120 * PX, y |-> centerY,
                      width |-> CarWidth * PX, height |-> CarHeight * PX,
                      angle |-> 0, collisionInsetX |-> CollisionInsetX * PX,
                      collisionInsetY |-> CollisionInsetY * PX] >>,
   parkingSpace |-> [x |-> centerX, y |-> centerY, width |-> 150 * PX,
                     height |-> SpaceHeightPx * PX],
   gapBetweenCars |-> InitialGap,
   winCount |-> 0,
   winLatched |-> FALSE,
   winResetAtMs |-> Null,
   isDragging |-> FALSE,
   dragOffsetX |-> 0,
   dragOffsetY |-> 0,
   collisionFlashUntilMs |-> 0,
   collisionBounceUntilMs |-> 0,
   collisionBounceDir |-> Pt(0, 0),
   collisionMTV |-> NoMTV,
   lastCollision |-> "none"]

(***************************************************************************)
(* Collision query.                                                        *)
(***************************************************************************)
playerPolygon(c) ==
  getChamferedRectPolygon(c.x, c.y, CarWidth * PX, CarHeight * PX, c.angle,
                          CollisionInsetX * PX, CollisionInsetY * PX)

npcPolygon(pc) ==
  getChamferedRectPolygon(pc.x, pc.y, pc.width, pc.height, pc.angle,
                          pc.collisionInsetX, pc.collisionInsetY)

curbPolygon ==
  getRectangleCorners(centerX, curbTop + (CurbHeightPx * PX) \div 2,
                      curbWidth, CurbHeightPx * PX, 0)

\* The first contact among the three results, in test order.
firstContact(g, r1, r2, r3) ==
  IF r1.collides THEN [hit |-> TRUE, with |-> "car1", mtv |-> r1.mtv]
  ELSE IF r2.collides THEN [hit |-> TRUE, with |-> "car2", mtv |-> r2.mtv]
  ELSE IF r3.collides THEN [hit |-> TRUE, with |-> "curb", mtv |-> r3.mtv]
  ELSE [hit |-> FALSE, with |-> g.lastCollision, mtv |-> g.collisionMTV]

collideWith(g, playerPoly) ==
  firstContact(g, polygonCollisionMTV(playerPoly, npcPolygon(g.parkedCars[1])),
               polygonCollisionMTV(playerPoly, npcPolygon(g.parkedCars[2])),
               polygonCollisionMTV(playerPoly, curbPolygon))

\* hit, and on a hit what was hit and the MTV; the parked cars in order, then
\* the curb.
checkCollisions(g) == collideWith(g, playerPolygon(g.car))

isPointerOnCar(g, px, py) == pointInPolygon(px, py, playerPolygon(g.car))

(***************************************************************************)
(* updateCar(dtSeconds), block by block.  dt is in milliseconds.           *)
(***************************************************************************)
\* applyThrottle without the clamps to +-maxSpeed.
applyThrottleNoClamp(c, k, dt) ==
  LET dv == Div(AccelerationPx * PX * dt, 1000)
      df == Div(FrictionPx * PX * dt, 1000)
  IN  IF k.up
      THEN [c EXCEPT !.lastDirection = 1, !.speed = c.speed + dv]
      ELSE IF k.down
      THEN [c EXCEPT !.lastDirection = -1, !.speed = c.speed - dv]
      ELSE IF c.speed > 0 THEN [c EXCEPT !.speed = Max(0, c.speed - df)]
      ELSE IF c.speed < 0 THEN [c EXCEPT !.speed = Min(0, c.speed + df)]
      ELSE c

\* Throttle and friction.
applyThrottle(c, k, dt) ==
  LET dv == Div(AccelerationPx * PX * dt, 1000)
      df == Div(FrictionPx * PX * dt, 1000)
  IN  IF k.up
      THEN [c EXCEPT !.lastDirection = 1, !.speed = Min(c.speed + dv, maxSpeed)]
      ELSE IF k.down
      THEN [c EXCEPT !.lastDirection = -1, !.speed = Max(c.speed - dv, -maxSpeed)]
      ELSE IF c.speed > 0 THEN [c EXCEPT !.speed = Max(0, c.speed - df)]
      ELSE IF c.speed < 0 THEN [c EXCEPT !.speed = Min(0, c.speed + df)]
      ELSE c

\* applySteering without the clamps to +-maxSteerAngle.
applySteeringNoClamp(c, k, dt) ==
  LET ds == Div(steerChangeRate * dt, 1000)
  IN  IF k.left THEN [c EXCEPT !.steerAngle = c.steerAngle - ds]
      ELSE IF k.right THEN [c EXCEPT !.steerAngle = c.steerAngle + ds]
      ELSE c

\* Steering; no self-centering.
applySteering(c, k, dt) ==
  LET ds == Div(steerChangeRate * dt, 1000)
  IN  IF k.left
      THEN [c EXCEPT !.steerAngle = Max(c.steerAngle - ds, -maxSteerAngle)]
      ELSE IF k.right
      THEN [c EXCEPT !.steerAngle = Min(c.steerAngle + ds, maxSteerAngle)]
      ELSE c

\* wheelbase / tan(|steerAngle|), in 1/100 px.
turnRadiusOf(c) == Div(WheelbasePx * PX * UNIT, Tan(Abs(c.steerAngle)))

\* speed / turnRadius, in 1/10000 rad per second.
angularVelocityOf(c) == Div(c.speed * RAD, turnRadiusOf(c))

\* applyHeading that turns with the speed whether or not the wheel is turned.
applyHeadingDrift(c, dt) ==
  [c EXCEPT !.angle = c.angle + Div(Div(c.speed * RAD, WheelbasePx * PX) * dt, 1000)]

\* applyHeading that turns by the magnitude of the speed, the same way in
\* reverse as forward.
applyHeadingAbsSpeed(c, dt) ==
  IF Abs(c.speed) > MoveEps /\ Abs(c.steerAngle) > SteerEps
  THEN LET da == Div(Abs(angularVelocityOf(c)) * dt, 1000)
       IN  IF c.steerAngle > 0
           THEN [c EXCEPT !.angle = c.angle + da]
           ELSE [c EXCEPT !.angle = c.angle - da]
  ELSE c

\* Bicycle-model heading update, only when moving and steering.
applyHeading(c, dt) ==
  IF Abs(c.speed) > MoveEps /\ Abs(c.steerAngle) > SteerEps
  THEN LET da == Div(angularVelocityOf(c) * dt, 1000)
       IN  IF c.steerAngle > 0
           THEN [c EXCEPT !.angle = c.angle + da]
           ELSE [c EXCEPT !.angle = c.angle - da]
  ELSE c

\* Position update.
applyMove(c, dt) ==
  LET d == Div(c.speed * dt, 10)
  IN  [c EXCEPT !.x = c.x + Div(Cos(c.angle) * d, 100 * UNIT),
                !.y = c.y + Div(Sin(c.angle) * d, 100 * UNIT)]

\* The car after throttle, steering, heading and position update.
integrate(g, dt) ==
  applyMove(applyHeading(applySteering(applyThrottle(g.car, g.keys, dt),
                                       g.keys, dt), dt), dt)

\* The unit vector opposite to the MTV, or opposite to the heading.
bounceDirOf(mtv, angle) ==
  IF ~mtv.isNull
  THEN LET n == Normalised(-mtv.x, -mtv.y, Hypot(mtv.x, mtv.y))
       IN  Pt(n.x, n.y)
  ELSE Pt(-Cos(angle), -Sin(angle))

\* respond that also shoves the first parked car along the MTV on contact.
respondShoves(g, prevX, prevY, nowMs, r) ==
  IF r.hit
  THEN [g EXCEPT
          !.car = [@ EXCEPT !.x = prevX, !.y = prevY, !.speed = 0,
                            !.collided = TRUE],
          !.parkedCars = << [@[1] EXCEPT !.x = @ + r.mtv.x, !.y = @ + r.mtv.y],
                            @[2] >>,
          !.lastCollision = r.with,
          !.collisionMTV = r.mtv,
          !.collisionFlashUntilMs = nowMs + collisionFlashDurationMs,
          !.collisionBounceDir = bounceDirOf(r.mtv, g.car.angle),
          !.collisionBounceUntilMs = nowMs + collisionBounceDurationMs]
  ELSE [g EXCEPT !.car = [@ EXCEPT !.collided = FALSE]]

\* The collision branch for the query result r: on contact roll the
\* translation back to (prevX, prevY), stop, and set up flash and bounce.
respond(g, prevX, prevY, nowMs, r) ==
  IF r.hit
  THEN [g EXCEPT
          !.car = [@ EXCEPT !.x = prevX, !.y = prevY, !.speed = 0,
                            !.collided = TRUE],
          !.lastCollision = r.with,
          !.collisionMTV = r.mtv,
          !.collisionFlashUntilMs = nowMs + collisionFlashDurationMs,
          !.collisionBounceDir = bounceDirOf(r.mtv, g.car.angle),
          !.collisionBounceUntilMs = nowMs + collisionBounceDurationMs]
  ELSE [g EXCEPT !.car = [@ EXCEPT !.collided = FALSE]]

\* resolveCollision that keeps the moved position on contact.
resolveCollisionNoRollback(g, prevX, prevY, nowMs) ==
  respond(g, g.car.x, g.car.y, nowMs, checkCollisions(g))

\* g holds the moved car.
resolveCollision(g, prevX, prevY, nowMs) ==
  respond(g, prevX, prevY, nowMs, checkCollisions(g))

\* Horizontal wrap and vertical clamp.
\* wrapAndClamp that clamps y but lets x run off the canvas.
wrapAndClampNoWrap(c) ==
  [c EXCEPT !.y = Max(DragMarginPx * PX,
                      Min(CanvasHeight * PX - DragMarginPx * PX, c.y))]

wrapAndClamp(c) ==
  LET halfW == (CarWidth * PX) \div 2
      wx == IF c.x < -halfW THEN CanvasWidth * PX + halfW
            ELSE IF c.x > CanvasWidth * PX + halfW THEN -halfW
            ELSE c.x
  IN  [c EXCEPT !.x = wx,
                !.y = Max(DragMarginPx * PX,
                          Min(CanvasHeight * PX - DragMarginPx * PX, c.y))]

\* bounceOffset with a linear decay.
bounceOffsetLinear(g, dt, nowMs) ==
  LET remaining == g.collisionBounceUntilMs - nowMs
      t == Max(0, Min(UNIT, Div(remaining * UNIT, collisionBounceDurationMs)))
  IN  Div(Div(collisionBounceSpeedPx * PX * dt, 1000) * t, UNIT)

\* The bounce offset of this tick, in 1/100 px: speed * t^2 * dt.
bounceOffset(g, dt, nowMs) ==
  LET remaining == g.collisionBounceUntilMs - nowMs
      t == Max(0, Min(UNIT, Div(remaining * UNIT, collisionBounceDurationMs)))
      scale == MulU(t, t)
  IN  Div(Div(collisionBounceSpeedPx * PX * dt, 1000) * scale, UNIT)

\* The second wrap: two independent tests.
wrapAgain(bx) ==
  LET halfW2 == (CarWidth * PX) \div 2
      wx == IF bx < -halfW2 THEN CanvasWidth * PX + halfW2 ELSE bx
  IN  IF wx > CanvasWidth * PX + halfW2 THEN -halfW2 ELSE wx

clampY(cy) ==
  Max(DragMarginPx * PX, Min(CanvasHeight * PX - DragMarginPx * PX, cy))

\* The car pushed by v along the bounce direction, wrapped and clamped.
pushed(c, dir, v) ==
  [c EXCEPT !.x = wrapAgain(c.x + Div(dir.x * v, UNIT)),
            !.y = clampY(c.y + Div(dir.y * v, UNIT))]

\* The bounce-back impulse, while active, with its own wrap and clamp.
applyBounce(g, dt, nowMs) ==
  IF nowMs < g.collisionBounceUntilMs
  THEN [g EXCEPT !.car = pushed(g.car, g.collisionBounceDir,
                                bounceOffset(g, dt, nowMs))]
  ELSE g

\* Which branch updateCar takes.
branchOf(g) ==
  IF g.winResetAtMs # Null THEN "linger"
  ELSE IF g.isDragging THEN "drag"
  ELSE "physics"

\* updateCar without the win-linger freeze.
updateCarNoLinger(g, dt, nowMs) ==
  IF g.isDragging
  THEN [g EXCEPT !.car = [@ EXCEPT
           !.speed = 0,
           !.x = Max(DragMarginPx * PX, Min(CanvasWidth * PX - DragMarginPx * PX, @)),
           !.y = Max(DragMarginPx * PX, Min(CanvasHeight * PX - DragMarginPx * PX, @)),
           !.collided = FALSE]]
  ELSE LET moved == [g EXCEPT !.car = integrate(g, dt)]
           resolved == resolveCollision(moved, g.car.x, g.car.y, nowMs)
           wrapped == [resolved EXCEPT !.car = wrapAndClamp(@)]
       IN  applyBounce(wrapped, dt, nowMs)

\* updateCar that runs the physics while the car is dragged.
updateCarNoDrag(g, dt, nowMs) ==
  IF g.winResetAtMs # Null
  THEN [g EXCEPT !.car = [@ EXCEPT !.speed = 0]]
  ELSE LET moved == [g EXCEPT !.car = integrate(g, dt)]
           resolved == resolveCollision(moved, g.car.x, g.car.y, nowMs)
           wrapped == [resolved EXCEPT !.car = wrapAndClamp(@)]
       IN  applyBounce(wrapped, dt, nowMs)

\* updateCar that on contact also rolls heading and steerAngle back.
updateCarRollbackAll(g, dt, nowMs) ==
  IF g.winResetAtMs # Null
  THEN [g EXCEPT !.car = [@ EXCEPT !.speed = 0]]
  ELSE IF g.isDragging
  THEN [g EXCEPT !.car = [@ EXCEPT
           !.speed = 0,
           !.x = Max(DragMarginPx * PX, Min(CanvasWidth * PX - DragMarginPx * PX, @)),
           !.y = Max(DragMarginPx * PX, Min(CanvasHeight * PX - DragMarginPx * PX, @)),
           !.collided = FALSE]]
  ELSE LET moved == [g EXCEPT !.car = integrate(g, dt)]
           resolved == resolveCollision(moved, g.car.x, g.car.y, nowMs)
           restored == IF resolved.car.collided
                       THEN [resolved EXCEPT !.car = [@ EXCEPT
                               !.angle = g.car.angle,
                               !.steerAngle = g.car.steerAngle]]
                       ELSE resolved
           wrapped == [restored EXCEPT !.car = wrapAndClamp(@)]
       IN  applyBounce(wrapped, dt, nowMs)

updateCar(g, dt, nowMs) ==
  IF g.winResetAtMs # Null
  THEN [g EXCEPT !.car = [@ EXCEPT !.speed = 0]]
  ELSE IF g.isDragging
  THEN [g EXCEPT !.car = [@ EXCEPT
           !.speed = 0,
           !.x = Max(DragMarginPx * PX, Min(CanvasWidth * PX - DragMarginPx * PX, @)),
           !.y = Max(DragMarginPx * PX, Min(CanvasHeight * PX - DragMarginPx * PX, @)),
           !.collided = FALSE]]
  ELSE LET moved == [g EXCEPT !.car = integrate(g, dt)]
           resolved == resolveCollision(moved, g.car.x, g.car.y, nowMs)
           wrapped == [resolved EXCEPT !.car = wrapAndClamp(@)]
       IN  applyBounce(wrapped, dt, nowMs)

(***************************************************************************)
(* checkParking, called by render on every frame.                          *)
(***************************************************************************)
inSpace(g) ==
  /\ g.car.x > g.parkingSpace.x - g.parkingSpace.width \div 2
  /\ g.car.x < g.parkingSpace.x + g.parkingSpace.width \div 2
  /\ g.car.y > g.parkingSpace.y - g.parkingSpace.height \div 2
  /\ g.car.y < g.parkingSpace.y + g.parkingSpace.height \div 2

wellAligned(angle) ==
  \/ Abs(JsRem(angle, TWO_PI)) < AlignTol
  \/ Abs(JsRem(angle, TWO_PI) - TWO_PI) < AlignTol

\* winConditions without the near-zero speed condition.
winConditionsAnySpeed(g) ==
  inSpace(g) /\ wellAligned(g.car.angle)

winConditions(g) ==
  inSpace(g) /\ wellAligned(g.car.angle) /\ Abs(g.car.speed) < StopEps

\* latchWin that schedules on every frame on which the conditions hold.
latchWinAlways(g, nowMs) ==
  IF winConditions(g)
  THEN [g EXCEPT !.winLatched = TRUE, !.winResetAtMs = nowMs + winResetDelayMs]
  ELSE IF g.winResetAtMs = Null
       THEN [g EXCEPT !.winLatched = FALSE]
       ELSE g

\* latchWin that releases the latch whenever the conditions do not hold, also
\* while a reset is pending.
latchWinReleases(g, nowMs) ==
  IF winConditions(g)
  THEN IF ~g.winLatched
       THEN [g EXCEPT !.winLatched = TRUE,
                      !.winResetAtMs = nowMs + winResetDelayMs]
       ELSE g
  ELSE [g EXCEPT !.winLatched = FALSE]

\* latchWin that cancels a scheduled reset when the conditions cease to hold.
latchWinCancel(g, nowMs) ==
  IF winConditions(g)
  THEN IF ~g.winLatched
       THEN [g EXCEPT !.winLatched = TRUE,
                      !.winResetAtMs = nowMs + winResetDelayMs]
       ELSE g
  ELSE [g EXCEPT !.winLatched = FALSE, !.winResetAtMs = Null]

\* The latch: schedule once per successful park, release when not pending.
latchWin(g, nowMs) ==
  IF winConditions(g)
  THEN IF ~g.winLatched
       THEN [g EXCEPT !.winLatched = TRUE,
                      !.winResetAtMs = nowMs + winResetDelayMs]
       ELSE g
  ELSE IF g.winResetAtMs = Null
       THEN [g EXCEPT !.winLatched = FALSE]
       ELSE g

\* nextGap without the floor, with the floor as a ceiling, and growing.
nextGapNoFloor(gap) == gap - gapStep

nextGapMin(gap) == Min(minGap, gap - gapStep)

nextGapGrow(gap) == Max(minGap, gap + gapStep)

\* The gap of the next level.
nextGap(gap) == Max(minGap, gap - gapStep)

\* fireReset that does not wait for the timestamp.
fireResetEarly(g, nowMs) ==
  IF g.winResetAtMs # Null
  THEN LET shrunk == [g EXCEPT !.winCount = @ + 1,
                               !.gapBetweenCars = nextGap(@)]
           placed == setInitialCarPosition(recomputeParkingLayout(shrunk))
       IN  [placed EXCEPT !.winResetAtMs = Null, !.winLatched = FALSE]
  ELSE g

\* fireReset that places the car before it shrinks the gap.
fireResetStaleSpawn(g, nowMs) ==
  IF g.winResetAtMs # Null /\ nowMs >= g.winResetAtMs
  THEN LET placed == setInitialCarPosition(g)
           shrunk == [placed EXCEPT !.winCount = @ + 1,
                                    !.gapBetweenCars = nextGap(@)]
           laid == recomputeParkingLayout(shrunk)
       IN  [laid EXCEPT !.winResetAtMs = Null, !.winLatched = FALSE]
  ELSE g

\* fireReset that drops a due reset when the car has left the target.
fireResetIfParked(g, nowMs) ==
  IF g.winResetAtMs # Null /\ nowMs >= g.winResetAtMs
  THEN IF winConditions(g)
       THEN LET shrunk == [g EXCEPT !.winCount = @ + 1,
                                    !.gapBetweenCars = nextGap(@)]
                placed == setInitialCarPosition(recomputeParkingLayout(shrunk))
            IN  [placed EXCEPT !.winResetAtMs = Null, !.winLatched = FALSE]
       ELSE [g EXCEPT !.winResetAtMs = Null, !.winLatched = FALSE]
  ELSE g

\* The win delay timer: progress to the next level when it has elapsed.
fireReset(g, nowMs) ==
  IF g.winResetAtMs # Null /\ nowMs >= g.winResetAtMs
  THEN LET shrunk == [g EXCEPT !.winCount = @ + 1,
                               !.gapBetweenCars = nextGap(@)]
           placed == setInitialCarPosition(recomputeParkingLayout(shrunk))
       IN  [placed EXCEPT !.winResetAtMs = Null, !.winLatched = FALSE]
  ELSE g

\* checkParking that is skipped while a drag is active.
checkParkingNotDragging(g, nowMs) ==
  IF g.isDragging THEN g ELSE fireReset(latchWin(g, nowMs), nowMs)

checkParking(g, nowMs) == fireReset(latchWin(g, nowMs), nowMs)

(***************************************************************************)
(* Bounds of the model and the inputs the environment chooses from.        *)
(***************************************************************************)
MaxFrames == 3
MaxEvents == 4

KeyNames == {"up", "down", "left", "right"}

\* Gaps between frame timestamps, ms: a repeated timestamp, a 60 Hz frame,
\* and a pause as long as the win linger.
FrameGaps == {0, 16, winResetDelayMs}

\* Pointer positions, 1/100 px.  OnSpawn is on the spawned car, 10 px right
\* of and 5 px below its centre; a car grabbed there lands centred in the
\* target when the pointer moves to ToTarget, 0.1 px behind the left parked
\* car (gap 200) at ToBumper, and is clamped at OffCanvas.
OnSpawn == Pt(120 * PX, 360 * PX)
ToTarget == Pt(410 * PX, 425 * PX)
ToBumper == Pt(17490, 425 * PX)
OffCanvas == Pt(-50 * PX, 900 * PX)

MousePoints == {OnSpawn, ToTarget, ToBumper, OffCanvas}

GrabPoints == {OnSpawn, ToTarget}

\* Values the range input can report (min 60, max 360, step 10): the two ends.
SliderValues == {v \in {SliderMin, SliderMax} : (v - SliderMin) % SliderStep = 0}

(***************************************************************************)
(* Initial state: the object when the constructor returns.                 *)
(***************************************************************************)
InitGame == recomputeParkingLayout(setInitialCarPosition(Constructed))

NoStep(op) ==
  [op |-> op, branch |-> "none", dt |-> 0, pre |-> car, post |-> car,
   contact |-> FALSE, held |-> FALSE, scheduled |-> FALSE, fired |-> FALSE]

InitWith(g) ==
  /\ car = g.car
  /\ keys = g.keys
  /\ parkedCars = g.parkedCars
  /\ parkingSpace = g.parkingSpace
  /\ gapBetweenCars = g.gapBetweenCars
  /\ winCount = g.winCount
  /\ winLatched = g.winLatched
  /\ winResetAtMs = g.winResetAtMs
  /\ isDragging = g.isDragging
  /\ dragOffsetX = g.dragOffsetX
  /\ dragOffsetY = g.dragOffsetY
  /\ collisionFlashUntilMs = g.collisionFlashUntilMs
  /\ collisionBounceUntilMs = g.collisionBounceUntilMs
  /\ collisionBounceDir = g.collisionBounceDir
  /\ collisionMTV = g.collisionMTV
  /\ lastCollision = g.lastCollision
  /\ lastFrameAtMs = Null
  /\ now = 0
  /\ frames = 0
  /\ events = 0
  /\ sliderInputs = 0
  /\ step = [op |-> "init", branch |-> "none", dt |-> 0, pre |-> g.car,
             post |-> g.car, contact |-> FALSE, held |-> FALSE,
             scheduled |-> FALSE, fired |-> FALSE]

Init == InitWith(InitGame)

(***************************************************************************)
(* Event handlers.                                                         *)
(***************************************************************************)
Event(op) ==
  /\ events' = events + 1
  /\ step' = NoStep(op)
  /\ UNCHANGED << lastFrameAtMs, now, frames >>

KeyDown(k) ==
  /\ ~keys[k]
  /\ Event("keydown")
  /\ Install([This EXCEPT !.keys[k] = TRUE])
  /\ UNCHANGED sliderInputs

KeyUp(k) ==
  /\ keys[k]
  /\ Event("keyup")
  /\ Install([This EXCEPT !.keys[k] = FALSE])
  /\ UNCHANGED sliderInputs

mousedown(g, px, py) ==
  IF isPointerOnCar(g, px, py)
  THEN [g EXCEPT !.isDragging = TRUE,
                 !.dragOffsetX = g.car.x - px,
                 !.dragOffsetY = g.car.y - py,
                 !.car = [@ EXCEPT !.speed = 0]]
  ELSE g

mousemove(g, px, py) ==
  IF ~g.isDragging THEN g
  ELSE [g EXCEPT !.car = [@ EXCEPT
          !.x = Max(DragMarginPx * PX,
                    Min(CanvasWidth * PX - DragMarginPx * PX, px + g.dragOffsetX)),
          !.y = Max(DragMarginPx * PX,
                    Min(CanvasHeight * PX - DragMarginPx * PX, py + g.dragOffsetY)),
          !.collided = FALSE]]

endDrag(g) == [g EXCEPT !.isDragging = FALSE]

\* sliderInput that does not recompute the layout.
sliderInputNoLayout(g, v) == [g EXCEPT !.gapBetweenCars = v]

sliderInput(g, v) == recomputeParkingLayout([g EXCEPT !.gapBetweenCars = v])

\* The button goes down only while it is up; a press that misses the car
\* changes nothing.
MouseDown(p) ==
  /\ ~isDragging
  /\ isPointerOnCar(This, p.x, p.y)
  /\ Event("mousedown")
  /\ Install(mousedown(This, p.x, p.y))
  /\ UNCHANGED sliderInputs

\* A move with no drag in progress returns at once.
MouseMove(p) ==
  /\ isDragging
  /\ Event("mousemove")
  /\ Install(mousemove(This, p.x, p.y))
  /\ UNCHANGED sliderInputs

\* mouseup or mouseleave.
MouseUp ==
  /\ isDragging
  /\ Event("mouseup")
  /\ Install(endDrag(This))
  /\ UNCHANGED sliderInputs

SliderInput(v) ==
  /\ Event("slider")
  /\ Install(sliderInput(This, v))
  /\ sliderInputs' = 1

(***************************************************************************)
(* gameLoop(timestampMs): one animation frame, updateCar then render.      *)
(***************************************************************************)
\* dtSeconds in ms: 0 on the first frame, clamped to [0, 0.05 s].
\* frameDt that caps the elapsed time at twice the limit.
frameDtLooseCap(last, timestampMs) ==
  LET from == IF last = Null THEN timestampMs ELSE last
  IN  Max(0, Min(timestampMs - from, 2 * MaxDtMs))

frameDt(last, timestampMs) ==
  LET from == IF last = Null THEN timestampMs ELSE last
      dtMs == timestampMs - from
  IN  Max(0, Min(dtMs, MaxDtMs))

\* The clock starts at the first frame.
Frame(gapMs) ==
  /\ lastFrameAtMs = Null => gapMs = 0
  /\ LET timestampMs == now + gapMs
         dt == frameDt(lastFrameAtMs, timestampMs)
     IN  \E updated \in {updateCar(This, dt, timestampMs)} :
         \E rendered \in {checkParking(updated, timestampMs)} :
         /\ Install(rendered)
         /\ now' = timestampMs
         /\ lastFrameAtMs' = timestampMs
         /\ step' = [op |-> "frame", branch |-> branchOf(This), dt |-> dt,
                     pre |-> car, post |-> updated.car,
                     contact |-> (branchOf(This) = "physics" /\ updated.car.collided),
                     held |-> winConditions(updated),
                     scheduled |-> (updated.winResetAtMs = Null
                                    /\ latchWin(updated, timestampMs).winResetAtMs # Null),
                     fired |-> (rendered.winCount # updated.winCount)]
  /\ frames' = frames + 1
  /\ UNCHANGED << events, sliderInputs >>

Next ==
  \/ events < MaxEvents /\ \E k \in KeyNames : KeyDown(k)
  \/ events < MaxEvents /\ \E k \in KeyNames : KeyUp(k)
  \/ events < MaxEvents /\ \E p \in GrabPoints : MouseDown(p)
  \/ events < MaxEvents /\ \E p \in MousePoints : MouseMove(p)
  \/ events < MaxEvents /\ MouseUp
  \/ events < MaxEvents /\ \E v \in SliderValues : SliderInput(v)
  \/ frames < MaxFrames /\ \E gapMs \in FrameGaps : Frame(gapMs)

Spec == Init /\ [][Next]_vars

(***************************************************************************)
(* Driving: the keys are chosen before the first frame and held, and the    *)
(* frames follow one another 50 ms apart; at one frame the pointer may     *)
(* grab the car and carry it into the target.                               *)
(***************************************************************************)
MaxDriveFrames == 80
MaxDriveEvents == 6
DragFrame == 20

DriveGaps == {0, MaxDtMs}

NextDrive ==
  \/ frames = 0 /\ events < MaxDriveEvents /\ \E k \in KeyNames : KeyDown(k)
  \/ frames = DragFrame /\ events < MaxDriveEvents /\ MouseDown(OnSpawn)
  \/ frames = DragFrame /\ events < MaxDriveEvents /\ MouseMove(ToTarget)
  \/ frames < MaxDriveFrames /\ \E gapMs \in DriveGaps : gapMs > 0 /\ Frame(gapMs)
  \/ frames = 0 /\ Frame(0)

SpecDrive == Init /\ [][NextDrive]_vars

(***************************************************************************)
(* Levels: no key and no slider input; the pointer grabs the car once and   *)
(* carries it into the target after every respawn.                         *)
(***************************************************************************)
MaxLevelFrames == 26
MaxLevelEvents == 13

LevelGaps == {0, winResetDelayMs}

NextLevels ==
  \/ events < MaxLevelEvents /\ MouseDown(OnSpawn)
  \/ events < MaxLevelEvents /\ MouseMove(ToTarget)
  \/ frames < MaxLevelFrames /\ \E gapMs \in LevelGaps : gapMs > 0 /\ Frame(gapMs)
  \/ frames = 0 /\ Frame(0)

SpecLevels == Init /\ [][NextLevels]_vars

(***************************************************************************)
(* Parking: up to two keys are chosen before the first frame and held; at  *)
(* one of two frames the pointer may grab the car at its center, carry it  *)
(* to the center of the target or off the canvas and let it go; a pending  *)
(* reset is waited out in one long frame.                                  *)
(***************************************************************************)
MaxParkFrames == 40
MaxParkKeys == 2
MaxParkEvents == 5
EarlyGrab == 12
LateGrab == 24

GrabFrames == {EarlyGrab, LateGrab}

NextPark ==
  \/ frames = 0 /\ events < MaxParkKeys /\ \E k \in KeyNames : KeyDown(k)
  \/ frames \in GrabFrames /\ events < MaxParkEvents /\ MouseDown(Pt(car.x, car.y))
  \/ events < MaxParkEvents /\ step.op = "mousedown"
       /\ \E p \in {Pt(parkingSpace.x, parkingSpace.y), OffCanvas} : MouseMove(p)
  \/ events < MaxParkEvents /\ step.op = "mousemove" /\ MouseUp
  \/ frames = 0 /\ Frame(0)
  \/ frames > 0 /\ frames < MaxParkFrames /\ Frame(MaxDtMs)
  \/ frames > 0 /\ frames < MaxParkFrames /\ winResetAtMs # Null
       /\ Frame(winResetDelayMs)

SpecPark == Init /\ [][NextPark]_vars

\* Driving with keys chosen before the first frame and frames every 50 ms,
\* except at two frames where the host stalls: the next timestamp is equal,
\* 16 ms later or a whole pause later.
MaxPauseFrames == 76
MaxPauseKeys == 2
EarlyStall == 2
LateStall == 74
StallFrames == {EarlyStall, LateStall}

StallGaps == {0, 16, winResetDelayMs}

NextPause ==
  \/ frames = 0 /\ events < MaxPauseKeys /\ \E k \in KeyNames : KeyDown(k)
  \/ frames = 0 /\ Frame(0)
  \/ frames > 0 /\ frames < MaxPauseFrames /\ Frame(MaxDtMs)
  \/ frames \in StallFrames /\ \E gapMs \in StallGaps : Frame(gapMs)

SpecPause == Init /\ [][NextPause]_vars

\* Frames that keep coming while a reset is pending: the frame budget stops
\* the loop only when no reset is scheduled, and every frame after the first
\* advances the clock by half a linger or a whole one. gameLoop re-arms
\* requestAnimationFrame at the end of every frame, so a frame that can be
\* delivered eventually is: the fairness is on the step that counts a frame,
\* which in NextLive is a Frame step and nothing else.
MaxLiveFrames == 4
MaxLiveEvents == 3
LiveGaps == {winResetDelayMs \div 2, winResetDelayMs}

LiveFrame ==
  /\ frames > 0
  /\ frames < MaxLiveFrames \/ winResetAtMs # Null
  /\ \E gapMs \in LiveGaps : Frame(gapMs)

NextLive ==
  \/ events < MaxLiveEvents /\ \E k \in KeyNames : KeyDown(k)
  \/ events < MaxLiveEvents /\ \E k \in KeyNames : KeyUp(k)
  \/ events < MaxLiveEvents /\ \E p \in GrabPoints : MouseDown(p)
  \/ events < MaxLiveEvents /\ \E p \in MousePoints : MouseMove(p)
  \/ events < MaxLiveEvents /\ MouseUp
  \/ events < MaxLiveEvents /\ \E v \in SliderValues : SliderInput(v)
  \/ frames = 0 /\ Frame(0)
  \/ LiveFrame

FrameDelivered ==
  /\ frames > 0
  /\ frames < MaxLiveFrames \/ winResetAtMs # Null
  /\ frames' = frames + 1

SpecLive == Init /\ [][NextLive]_vars /\ WF_frames(FrameDelivered)

\* Driving resumed next to the first parked car: with up to two keys held
\* from the start the car is grabbed at its center after some ticks, set
\* down behind the parked car's rear bumper, in its row or half a lane
\* above it, and released; the heading keeps what the drive gave it.
MaxSqueezeFrames == 24
MaxSqueezeKeys == 2
MaxSqueezeEvents == 5
BesideBumper == Pt(155 * PX, 431 * PX)
AboveBumper == Pt(155 * PX, 400 * PX)
SqueezePoints == {BesideBumper, AboveBumper}

NextSqueeze ==
  \/ frames = 0 /\ events < MaxSqueezeKeys /\ \E k \in KeyNames : KeyDown(k)
  \/ frames = EarlyGrab /\ events < MaxSqueezeEvents /\ step.op = "frame"
       /\ MouseDown(Pt(car.x, car.y))
  \/ events < MaxSqueezeEvents /\ step.op = "mousedown"
       /\ \E p \in SqueezePoints : MouseMove(p)
  \/ events < MaxSqueezeEvents /\ step.op = "mousemove" /\ MouseUp
  \/ frames = 0 /\ Frame(0)
  \/ frames > 0 /\ frames < MaxSqueezeFrames /\ Frame(MaxDtMs)

SpecSqueeze == Init /\ [][NextSqueeze]_vars

(***************************************************************************)
(* Geometry: the collision functions applied to pairs of rectangles drawn  *)
(* from a grid of centers, angles and sizes.  The game state stays as      *)
(* constructed; step records the pair and what each test returned.         *)
(***************************************************************************)
ShapeXs == {300 * PX, 345 * PX, 380 * PX, 390 * PX, 390 * PX + 1, 420 * PX}
ShapeYs == {300 * PX, 355 * PX}
ShapeAngles == {0, PI \div 4, HALF_PI, -(PI \div 6)}

\* Car-sized rectangles at every angle and smaller blocks at angle 0.
Shapes ==
  [x : ShapeXs, y : ShapeYs, width : {CarWidth * PX}, height : {CarHeight * PX},
   angle : ShapeAngles]
  \cup
  [x : ShapeXs, y : ShapeYs, width : {CarHeight * PX},
   height : {CurbHeightPx * PX}, angle : {0}]

\* The polygons checkCollisions builds from a rectangle.
chamferOf(s, insetX, insetY) ==
  getChamferedRectPolygon(s.x, s.y, s.width, s.height, s.angle, insetX, insetY)

cornersOf(s) == getRectangleCorners(s.x, s.y, s.width, s.height, s.angle)

collides(pointsA, pointsB) == polygonCollisionMTV(pointsA, pointsB).collides

\* One application of the collision tests to the pair (a, b), both ways.
Probe(a, b) ==
  /\ step.op = "init"
  /\ step' = [op |-> "probe", a |-> a, b |-> b,
              rectAB |-> collides(cornersOf(a), cornersOf(b)),
              rectBA |-> collides(cornersOf(b), cornersOf(a)),
              chamferAB |-> collides(chamferOf(a, CollisionInsetX * PX, CollisionInsetY * PX),
                                     chamferOf(b, CollisionInsetX * PX, CollisionInsetY * PX)),
              chamferBA |-> collides(chamferOf(b, CollisionInsetX * PX, CollisionInsetY * PX),
                                     chamferOf(a, CollisionInsetX * PX, CollisionInsetY * PX)),
              mixedAB |-> collides(chamferOf(a, CollisionInsetX * PX, CollisionInsetY * PX),
                                   cornersOf(b)),
              mixedBA |-> collides(cornersOf(b),
                                   chamferOf(a, CollisionInsetX * PX, CollisionInsetY * PX)),
              zeroAB |-> collides(chamferOf(a, 0, 0), chamferOf(b, 0, 0)),
              zeroBA |-> collides(chamferOf(b, 0, 0), chamferOf(a, 0, 0))]
  /\ UNCHANGED << car, keys, parkedCars, parkingSpace, gapBetweenCars, winCount,
                  winLatched, winResetAtMs, isDragging, dragOffsetX, dragOffsetY,
                  collisionFlashUntilMs, collisionBounceUntilMs, collisionBounceDir,
                  collisionMTV, lastCollision, lastFrameAtMs, now, frames, events,
                  sliderInputs >>

NextGeometry == \E a \in Shapes, b \in Shapes : Probe(a, b)

SpecGeometry == Init /\ [][NextGeometry]_vars

(***************************************************************************)
(* Properties.                                                             *)
(***************************************************************************)
IsFrame == step.op = "frame"

\* A physics tick in which the collision check reported contact.
ContactTick == IsFrame /\ step.branch = "physics" /\ step.contact

\* C1, as stated: in every physics tick with contact the position at the end
\* of updateCar equals the position at the start of the tick, and speed is 0.
C1_RollbackExact ==
  ContactTick =>
    /\ step.post.x = step.pre.x
    /\ step.post.y = step.pre.y
    /\ step.post.speed = 0

\* The position the bounce of a contact tick leaves: the pre-tick position
\* pushed by the full first-tick offset collisionBounceSpeed * dt along the
\* bounce direction set in this tick, wrapped and clamped.
bouncedFrom(pre, dt) ==
  pushed(wrapAndClamp(pre), collisionBounceDir,
         Div(collisionBounceSpeedPx * PX * dt, 1000))

\* C1, amended: in every physics tick with contact the speed at the end of
\* updateCar is 0 and the position is the pre-tick position displaced by that
\* tick's bounce offset only; it is the pre-tick position when dt = 0.
C1_RollbackThenBounce ==
  ContactTick =>
    /\ step.post.speed = 0
    /\ step.post.x = bouncedFrom(step.pre, step.dt).x
    /\ step.post.y = bouncedFrom(step.pre, step.dt).y
    /\ step.dt = 0 => (step.post.x = step.pre.x /\ step.post.y = step.pre.y)

C1_Witness ==
  /\ ContactTick
  /\ step.dt > 0
  /\ step.pre.speed > 0
  /\ step.post.x # step.pre.x

\* C2: in every reachable state gapBetweenCars >= minGap.
C2_GapAtLeastMin == gapBetweenCars >= minGap

C2_Witness == step.fired /\ sliderInputs = 1 /\ gapBetweenCars = minGap

\* C3: with no slider input the gap after n wins is max(60, 200 - 20 n); it
\* is 60 after 10 wins and still 60 after the 11th.
C3_GapAfterWins ==
  sliderInputs = 0 =>
    /\ gapBetweenCars = Max(minGap, InitialGap - gapStep * winCount)
    /\ winCount = 10 => gapBetweenCars = 60
    /\ winCount = 11 => gapBetweenCars = 60

C3_Witness == step.fired /\ winCount = 11 /\ gapBetweenCars = 60

\* C4, as stated: gapBetweenCars never exceeds its initial value.
C4_GapAtMostInitial == gapBetweenCars <= InitialGap

\* C4, amended: gapBetweenCars never exceeds the maximum of the gap slider.
C4_GapAtMostSliderMax == gapBetweenCars <= SliderMax

C4_Witness == sliderInputs = 1 /\ gapBetweenCars = SliderMax

\* C5: winCount starts at 0; a step leaves it unchanged or adds exactly 1,
\* and it adds 1 only in a frame whose pending reset timestamp has elapsed.
C5_WinCountMonotone ==
  /\ winCount = 0
  /\ [][\/ winCount' = winCount
        \/ /\ winCount' = winCount + 1
           /\ step'.op = "frame"
           /\ winResetAtMs # Null
           /\ now' >= winResetAtMs]_vars

C5_Witness == step.fired /\ winCount = 1 /\ winResetAtMs = Null

\* C6: in every reachable state |steerAngle| <= maxSteerAngle.
C6_SteerBounded == Abs(car.steerAngle) <= maxSteerAngle

\* The clamp has cut a steering step short, and a reset has zeroed a full lock.
C6_Witness ==
  /\ IsFrame /\ step.branch = "physics"
  /\ keys.right
  /\ step.pre.steerAngle < maxSteerAngle
  /\ step.pre.steerAngle + Div(steerChangeRate * step.dt, 1000) > maxSteerAngle
  /\ car.steerAngle = maxSteerAngle

\* C7: in every reachable state |speed| <= maxSpeed.
C7_SpeedBounded == Abs(car.speed) <= maxSpeed

C7_Witness ==
  /\ IsFrame /\ step.branch = "physics"
  /\ keys.up
  /\ step.dt > 0
  /\ step.pre.speed = maxSpeed
  /\ car.speed = maxSpeed

\* C8: the reset timestamp is scheduled only in a frame in which the win
\* conditions hold and the latch is clear, as now + winResetDelayMs; while it
\* is pending no step changes it except the one that clears it, and winCount
\* goes up by one exactly in the step that clears it.
C8_LatchOncePerOccupancy ==
  [][/\ (winResetAtMs = Null /\ winResetAtMs' # Null) =>
          /\ step'.op = "frame"
          /\ step'.held
          /\ ~winLatched
          /\ winResetAtMs' = now' + winResetDelayMs
     /\ winResetAtMs # Null => winResetAtMs' \in {winResetAtMs, Null}
     /\ (winResetAtMs # Null /\ winResetAtMs' = Null) <=> winCount' = winCount + 1
     /\ winCount' \in {winCount, winCount + 1}]_vars

\* A later frame on which the conditions still hold, the reset still pending
\* at its first timestamp.
C8_Witness ==
  /\ IsFrame /\ step.branch = "linger"
  /\ step.held
  /\ winResetAtMs # Null
  /\ winResetAtMs < now + winResetDelayMs

\* C9: while a reset is pending updateCar sets speed to 0 and leaves x, y,
\* heading, steerAngle and the collided flag as they were.
C9_LingerFreezes ==
  (IsFrame /\ step.branch = "linger") =>
    /\ step.post.speed = 0
    /\ step.post.x = step.pre.x
    /\ step.post.y = step.pre.y
    /\ step.post.angle = step.pre.angle
    /\ step.post.steerAngle = step.pre.steerAngle
    /\ step.post.collided = step.pre.collided

\* A linger tick with the throttle held, no drag and time elapsed.
C9_Witness ==
  /\ IsFrame /\ step.branch = "linger"
  /\ keys.up
  /\ ~isDragging
  /\ step.dt > 0

\* C10: while a reset is pending, a step that is not a frame at or after the
\* timestamp leaves winResetAtMs set and winLatched true, whether or not the
\* win conditions still hold; the first frame at or after the timestamp fires
\* the reset.
C10_ResetNotCancelled ==
  [][winResetAtMs # Null =>
       IF step'.op = "frame" /\ now' >= winResetAtMs
       THEN winCount' = winCount + 1 /\ winResetAtMs' = Null /\ ~winLatched'
       ELSE winResetAtMs' = winResetAtMs /\ winLatched /\ winLatched'
            /\ winCount' = winCount]_vars

\* A frame that found the car outside the target and left the reset pending.
C10_Witness ==
  /\ IsFrame
  /\ ~step.held
  /\ ~inSpace(This)
  /\ winResetAtMs # Null
  /\ winLatched

\* C11: the step in which a pending reset fires shrinks the gap, recomputes
\* the layout from the new gap and puts the car at the spawn pose computed
\* from the new gap, x = centerX - (gap/2 + car.width) - 100 and
\* y = curbTop - laneGapFromCurb - car.height - 50, with speed, steerAngle and
\* heading 0 and lastDirection +1; it leaves the latch clear and no reset
\* pending.
C11_ResetToSpawn ==
  [][step'.fired =>
       /\ gapBetweenCars' = Max(minGap, gapBetweenCars - gapStep)
       /\ parkingSpace'.width = gapBetweenCars' * PX
       /\ parkedCars'[2].x - parkedCars'[1].x = (gapBetweenCars' + CarWidth) * PX
       /\ car'.x = centerX - ((gapBetweenCars' * PX) \div 2 + CarWidth * PX)
                   - SpawnBackPx * PX
       /\ car'.y = curbTop - LaneGapFromCurbPx * PX - CarHeight * PX
                   - SpawnUpPx * PX
       /\ car'.speed = 0
       /\ car'.steerAngle = 0
       /\ car'.angle = 0
       /\ car'.lastDirection = 1
       /\ ~winLatched'
       /\ winResetAtMs' = Null]_vars

\* A reset that fired on a car in reverse gear, steered and turned, with the
\* gap above its floor.
C11_Witness ==
  /\ step.fired
  /\ step.pre.lastDirection = -1
  /\ step.pre.steerAngle # 0
  /\ step.pre.angle # 0
  /\ gapBetweenCars = InitialGap - gapStep
  /\ car.lastDirection = 1
  /\ car.x # step.pre.x

\* The car's center lies strictly inside the parking target.
CenterInTarget ==
  /\ car.x > parkingSpace.x - parkingSpace.width \div 2
  /\ car.x < parkingSpace.x + parkingSpace.width \div 2
  /\ car.y > parkingSpace.y - parkingSpace.height \div 2
  /\ car.y < parkingSpace.y + parkingSpace.height \div 2

\* C12: on a frame that starts with the latch clear, the win is latched (and
\* the reset scheduled at now + winResetDelayMs) if and only if, after the
\* tick, the car's center is inside the target, the heading passes the
\* alignment test and |speed| < 0.1; a car at rest at the center of the
\* target with heading 0 latches.
C12_LatchIffConditions ==
  [][(step'.op = "frame" /\ ~winLatched) =>
       /\ winLatched' <=> (/\ CenterInTarget'
                           /\ wellAligned(car'.angle)
                           /\ Abs(car'.speed) < StopEps)
       /\ winLatched' => winResetAtMs' = now' + winResetDelayMs
       /\ ~winLatched' => winResetAtMs' = Null
       /\ (/\ car'.x = parkingSpace'.x /\ car'.y = parkingSpace'.y
           /\ car'.angle = 0 /\ car'.speed = 0) => winLatched']_vars

\* The frame that latched a car at rest at the center of the target.
C12_Witness ==
  /\ IsFrame
  /\ step.scheduled
  /\ winLatched
  /\ car.x = parkingSpace.x /\ car.y = parkingSpace.y
  /\ car.angle = 0
  /\ car.speed = 0

\* Full turns on either side of zero that the comparison below looks at.
MaxTurns == 2

\* The heading is within the tolerance of some integer multiple of 2 pi.
NearFullTurn(angle) ==
  \E n \in -MaxTurns..MaxTurns : Abs(angle - n * TWO_PI) < AlignTol

\* C13, as stated: the alignment test accepts a heading exactly when it is
\* within 0.2 rad of an integer multiple of 2 pi, for negative headings as
\* well as positive ones, and it rejects a heading of pi.
C13_ModularAlignment ==
  /\ wellAligned(car.angle) <=> NearFullTurn(car.angle)
  /\ ~wellAligned(PI)

IsProbe == step.op = "probe"

\* C14: the SAT test is symmetric: polygonCollisionMTV(A, B).collides equals
\* polygonCollisionMTV(B, A).collides, for rectangles, chamfered polygons,
\* a chamfered polygon against a rectangle, and degenerate octagons.
C14_SatSymmetric ==
  IsProbe =>
    /\ step.rectAB = step.rectBA
    /\ step.chamferAB = step.chamferBA
    /\ step.mixedAB = step.mixedBA
    /\ step.zeroAB = step.zeroBA

\* An axis-aligned rectangle and a turned one whose bounding boxes overlap
\* but which an axis of the turned one separates, and a pair that collides.
C14_Witness ==
  /\ IsProbe
  /\ step.a.angle = 0 /\ step.b.angle = PI \div 4
  /\ step.a.x = 300 * PX /\ step.a.y = 300 * PX
  /\ step.b.x = 380 * PX /\ step.b.y = 355 * PX
  /\ ~step.rectAB /\ ~step.rectBA

\* C15, as stated: for every pair of rectangles, the chamfered polygons built
\* with insetX = insetY = 0 give the same collision result as the plain
\* rectangles.
C15_ZeroInsetMatchesRectangle ==
  IsProbe => (step.zeroAB = step.rectAB /\ step.zeroBA = step.rectBA)

\* C16: two axis-aligned rectangles whose centers are further apart along x
\* than the sum of their half-widths do not collide, whatever their y.
C16_SeparatedAlongX ==
  (/\ IsProbe
   /\ step.a.angle = 0 /\ step.b.angle = 0
   /\ Abs(step.a.x - step.b.x) > step.a.width \div 2 + step.b.width \div 2) =>
    /\ ~step.rectAB /\ ~step.rectBA
    /\ ~step.chamferAB /\ ~step.chamferBA
    /\ ~step.mixedAB /\ ~step.mixedBA

\* Two car-sized rectangles level with each other, 1/100 px further apart
\* than their half-widths add up to.
C16_Witness ==
  /\ IsProbe
  /\ step.a.angle = 0 /\ step.b.angle = 0
  /\ step.a.width = CarWidth * PX /\ step.b.width = CarWidth * PX
  /\ step.a.y = step.b.y
  /\ step.b.x - step.a.x = CarWidth * PX + 1
  /\ ~step.rectAB

\* C17: a tick that ends with steerAngle = 0 leaves the heading as it was,
\* whatever the speed, the throttle keys and the elapsed time.
C17_StraightKeepsHeading ==
  (IsFrame /\ step.post.steerAngle = 0) => step.post.angle = step.pre.angle

\* A physics tick of a moving car whose wheel came back to center after the
\* heading had turned away from 0.
C17_Witness ==
  /\ IsFrame /\ step.branch = "physics"
  /\ step.dt > 0
  /\ step.pre.steerAngle # 0
  /\ step.post.steerAngle = 0
  /\ step.post.speed > 0
  /\ step.pre.angle # 0
  /\ step.post.x # step.pre.x

\* The step is a tick of updateCar's drag branch.
DragTick == step'.op = "frame" /\ step'.branch = "drag"

\* The position keeps the drag margin from every edge of the canvas.
WithinDragBounds ==
  /\ car.x >= DragMarginPx * PX /\ car.x <= (CanvasWidth - DragMarginPx) * PX
  /\ car.y >= DragMarginPx * PX /\ car.y <= (CanvasHeight - DragMarginPx) * PX

\* What a drag tick does besides the position, and what holds of the
\* position after every drag move and drag tick.
DragSuppresses ==
  /\ DragTick =>
       /\ car'.speed = 0
       /\ ~car'.collided
       /\ car'.angle = car.angle
       /\ car'.steerAngle = car.steerAngle
       /\ car'.lastDirection = car.lastDirection
       /\ collisionBounceUntilMs' = collisionBounceUntilMs
       /\ collisionMTV' = collisionMTV
  /\ step'.op = "mousemove" =>
       /\ car'.angle = car.angle
       /\ car'.steerAngle = car.steerAngle
       /\ car'.speed = car.speed
  /\ (DragTick \/ step'.op = "mousemove") => WithinDragBounds'

\* C18, as stated: while drag is active updateCar sets speed to 0 and
\* collided to false and leaves heading and steerAngle unchanged; with no reset
\* pending the position is written only by the drag handler, never by the
\* tick, and is within
\* [45, W - 45] x [45, H - 45] after every drag move and drag tick.
C18_DragOnlyHandlerMoves ==
  [][/\ DragSuppresses
     /\ (isDragging /\ winResetAtMs = Null /\ step'.op # "mousemove") =>
          (car'.x = car.x /\ car'.y = car.y)]_vars

\* C18, amended: as above, but the drag tick itself writes the position: it
\* clamps it into [45, W - 45] x [45, H - 45], which moves a car that was
\* grabbed closer than 45 px to the left or right edge; key events and
\* mouseup leave the position alone.
C18_DragTickClamps ==
  [][/\ DragSuppresses
     /\ DragTick =>
          /\ car'.x = Max(DragMarginPx * PX,
                          Min((CanvasWidth - DragMarginPx) * PX, car.x))
          /\ car'.y = Max(DragMarginPx * PX,
                          Min((CanvasHeight - DragMarginPx) * PX, car.y))
     /\ (isDragging /\ step'.op \notin {"mousemove", "frame"}) =>
          (car'.x = car.x /\ car'.y = car.y)]_vars

\* A drag tick, throttle held, that moved a car grabbed near the left edge.
C18_Witness ==
  /\ IsFrame /\ step.branch = "drag"
  /\ keys.down
  /\ step.dt > 0
  /\ step.pre.x < DragMarginPx * PX
  /\ car.x = DragMarginPx * PX
  /\ car.speed = 0

\* C19: in every reachable state, so after construction and right after every
\* slider input and level reset, the layout matches the gap: the target is
\* at centerX and as wide as the gap, the parked cars are at
\* centerX -+ (gap + carWidth) / 2, their inner edges one gap apart, and
\* they share the target's y.
C19_LayoutMatchesGap ==
  /\ parkingSpace.x = centerX
  /\ parkingSpace.width = gapBetweenCars * PX
  /\ parkedCars[1].x = centerX - ((gapBetweenCars + CarWidth) * PX) \div 2
  /\ parkedCars[2].x = centerX + ((gapBetweenCars + CarWidth) * PX) \div 2
  /\ parkedCars[1].x + parkedCars[2].x = 2 * parkingSpace.x
  /\ (parkedCars[2].x - parkedCars[2].width \div 2)
       - (parkedCars[1].x + parkedCars[1].width \div 2) = gapBetweenCars * PX
  /\ parkedCars[1].y = parkingSpace.y
  /\ parkedCars[2].y = parkingSpace.y

\* The state right after a reset that shrank a gap the slider had set.
C19_Witness ==
  /\ step.fired
  /\ sliderInputs = 1
  /\ gapBetweenCars = SliderMax - gapStep
  /\ parkingSpace.width = (SliderMax - gapStep) * PX

\* C20: a step changes a parked car or the parking target only if it is a
\* slider input or the frame in which a reset fires; no other frame (physics,
\* drag or linger tick) and no key or mouse event changes them, and no step
\* at all changes a parked car's size or angle or the target's height.
C20_ObstaclesImmutable ==
  [][/\ (parkedCars' # parkedCars \/ parkingSpace' # parkingSpace) =>
          (step'.op = "slider" \/ (step'.op = "frame" /\ step'.fired))
     /\ \A i \in 1..2 :
          /\ parkedCars'[i].width = parkedCars[i].width
          /\ parkedCars'[i].height = parkedCars[i].height
          /\ parkedCars'[i].angle = parkedCars[i].angle
     /\ parkingSpace'.height = parkingSpace.height]_vars

\* A physics tick in which the car ran into a parked car, which stayed put.
C20_Witness ==
  /\ ContactTick
  /\ step.dt > 0
  /\ lastCollision = "car1"
  /\ parkedCars[1].x = centerX - ((gapBetweenCars + CarWidth) * PX) \div 2
  /\ parkedCars[1].y = parkingSpace.y

\* The car of the last frame after that tick's throttle and steering, and
\* after its heading update.
steered == applySteering(applyThrottle(step.pre, keys, step.dt), keys, step.dt)

turned == applyHeading(steered, step.dt)

\* C21: in a tick with contact only the translation is rolled back: heading
\* and steerAngle at the end of the tick are the values that tick's steering
\* and heading updates produced.
C21_OnlyTranslationRolledBack ==
  ContactTick =>
    /\ step.post.steerAngle = steered.steerAngle
    /\ step.post.angle = turned.angle

\* A contact tick in which the heading turned.
C21_Witness ==
  /\ ContactTick
  /\ step.dt > 0
  /\ step.post.angle # step.pre.angle
  /\ step.post.steerAngle # 0
  /\ step.post.speed = 0

\* A physics tick that turns the heading: moving and steering past the
\* thresholds after that tick's inputs.
TurningTick ==
  /\ IsFrame /\ step.branch = "physics"
  /\ Abs(steered.speed) > MoveEps
  /\ Abs(steered.steerAngle) > SteerEps

\* C22, as stated: with the steer angle above the threshold the heading
\* change of a tick has the same sign in reverse as forward: it does not
\* decrease for positive steer, whichever way the car moves.
C22_TurnSignIgnoresGear ==
  (TurningTick /\ steered.steerAngle > 0) => step.post.angle >= step.pre.angle

\* C22, amended: the heading change is (speed / turnRadius) * dt with the
\* signed speed, so its sign is sign(steer) * sign(speed): positive steer
\* turns the heading up when moving forward and down when reversing, and
\* negative steer the other way round.
C22_TurnSignFollowsGear ==
  TurningTick =>
    /\ (steered.steerAngle > 0 /\ steered.speed > 0) => step.post.angle >= step.pre.angle
    /\ (steered.steerAngle > 0 /\ steered.speed < 0) => step.post.angle <= step.pre.angle
    /\ (steered.steerAngle < 0 /\ steered.speed > 0) => step.post.angle <= step.pre.angle
    /\ (steered.steerAngle < 0 /\ steered.speed < 0) => step.post.angle >= step.pre.angle

\* A tick in reverse with positive steer that turned the heading down.
C22_Witness ==
  /\ TurningTick
  /\ steered.steerAngle > 0
  /\ steered.speed < 0
  /\ step.post.angle < step.pre.angle

\* The car of the last frame after that tick's kinematics, before the
\* collision query, and its collision polygon.
movedCar == integrate([car |-> step.pre, keys |-> keys], step.dt)

movedPolygon == playerPolygon(movedCar)

\* The polygon of the obstacle recorded by the last collision.
obstaclePolygon ==
  IF lastCollision = "car1" THEN npcPolygon(parkedCars[1])
  ELSE IF lastCollision = "car2" THEN npcPolygon(parkedCars[2])
  ELSE curbPolygon

\* The overlap of the two polygons' projections on each axis of a then b.
overlapsOf(a, b) ==
  [i \in 1..(Len(a) + Len(b)) |->
     overlapOf(projectPointsOnAxis(a, (getAxes(a) \o getAxes(b))[i]),
               projectPointsOnAxis(b, (getAxes(a) \o getAxes(b))[i]))]

\* v is the axis numbered i, pointing from the centroid of a to that of b
\* and scaled by the overlap ov on it.
isScaledAxis(v, a, b, i, ov) ==
  /\ v.x = Div(orient((getAxes(a) \o getAxes(b))[i], getPolygonCenter(a),
                      getPolygonCenter(b)).x * Div(ov, UNIT), UNIT)
  /\ v.y = Div(orient((getAxes(a) \o getAxes(b))[i], getPolygonCenter(a),
                      getPolygonCenter(b)).y * Div(ov, UNIT), UNIT)

\* v is the minimum-translation vector of a against b, given the overlaps
\* ovs on all axes: every overlap is positive and v is an axis of smallest
\* overlap, scaled by it and not pointing away from b's centroid.
isMTVOf(v, a, b, ovs) ==
  /\ \A i \in DOMAIN ovs : ovs[i] > 0
  /\ \E i \in DOMAIN ovs :
       /\ \A j \in DOMAIN ovs : ovs[i] <= ovs[j]
       /\ isScaledAxis(v, a, b, i, ovs[i])
  /\ (getPolygonCenter(b).x - getPolygonCenter(a).x) * v.x
       + (getPolygonCenter(b).y - getPolygonCenter(a).y) * v.y >= 0

\* d is the unit vector of -v (v not null).
isUnitAgainst(d, v) ==
  /\ d.x = Div(-v.x * UNIT, Hypot(v.x, v.y))
  /\ d.y = Div(-v.y * UNIT, Hypot(v.x, v.y))
  /\ d.x * v.x + d.y * v.y < 0

\* C23: on every detected collision the MTV is the axis of smallest positive
\* overlap between the moved vehicle polygon and the obstacle hit, oriented
\* from the vehicle's centroid toward the obstacle's and scaled by that
\* overlap, and the bounce direction set in that tick is the unit vector of
\* the negated MTV of that same collision.
C23_MTVAndBounceDir ==
  ContactTick =>
    /\ ~collisionMTV.isNull
    /\ isMTVOf(collisionMTV, movedPolygon, obstaclePolygon,
               overlapsOf(movedPolygon, obstaclePolygon))
    /\ (collisionMTV.x # 0 \/ collisionMTV.y # 0) =>
         isUnitAgainst(collisionBounceDir, collisionMTV)

\* A contact tick with a parked car whose MTV is not null and whose bounce
\* direction points back along it.
C23_Witness ==
  /\ ContactTick
  /\ lastCollision = "car1"
  /\ collisionMTV.x > 0
  /\ collisionBounceDir.x < 0

PhysicsTick == IsFrame /\ step.branch = "physics"

\* The bounce offset was applied in the last tick.
BounceActive == now < collisionBounceUntilMs

halfW == (CarWidth * PX) \div 2

frameGap == now' - lastFrameAtMs

\* The squared length of the last tick's kinematic displacement fits the
\* square of d.
MovedAtMost(d) ==
  (movedCar.x - step.pre.x) * (movedCar.x - step.pre.x)
    + (movedCar.y - step.pre.y) * (movedCar.y - step.pre.y) <= d * d

\* C25: the elapsed time passed to updateCar is within [0, 0.05] s whatever
\* the gap between frame timestamps: 0 on the first frame, 0 for a timestamp
\* that did not increase, the gap itself up to 0.05 s and 0.05 s beyond; so
\* the kinematic displacement of one tick is at most maxSpeed * 0.05 = 18 px.
C25_DtClamped ==
  /\ [][IsFrame' =>
       /\ step'.dt >= 0 /\ step'.dt <= MaxDtMs
       /\ lastFrameAtMs = Null => step'.dt = 0
       /\ (lastFrameAtMs # Null /\ frameGap <= 0) => step'.dt = 0
       /\ (lastFrameAtMs # Null /\ frameGap > 0 /\ frameGap <= MaxDtMs)
            => step'.dt = frameGap
       /\ (lastFrameAtMs # Null /\ frameGap > MaxDtMs) => step'.dt = MaxDtMs
       ]_vars
  /\ [](PhysicsTick => MovedAtMost(Div(maxSpeed * MaxDtMs, 1000)))

\* A tick after a pause of 1.2 s at full speed: dt is 0.05 s and the car
\* moved 18 px.
C25_Witness ==
  /\ PhysicsTick
  /\ frames = LateStall + 1
  /\ now >= winResetDelayMs
  /\ step.dt = MaxDtMs
  /\ step.pre.speed = maxSpeed
  /\ MovedAtMost(Div(maxSpeed * MaxDtMs, 1000))
  /\ ~MovedAtMost(Div(maxSpeed * MaxDtMs, 1000) - PX)

\* The car of the last tick after the collision branch: the moved car, at
\* the pre-tick position when the tick had contact.
bounceBase ==
  IF step.contact
  THEN [movedCar EXCEPT !.x = step.pre.x, !.y = step.pre.y]
  ELSE movedCar

\* (remaining / duration)^2 with remaining / duration held in [0, 1].
easeOut(remaining) ==
  MulU(Max(0, Min(UNIT, Div(remaining * UNIT, collisionBounceDurationMs))),
       Max(0, Min(UNIT, Div(remaining * UNIT, collisionBounceDurationMs))))

\* The decay factor of the bounce at the current time.
bounceScale == easeOut(collisionBounceUntilMs - now)

\* The bounce offset of the last tick, in 1/100 px.
bounceMagnitude ==
  Div(Div(collisionBounceSpeedPx * PX * step.dt, 1000) * bounceScale, UNIT)

\* C26: a collision at time t sets the expiry to t + 140 ms; on a physics
\* tick with now before the expiry the car ends at the position of the
\* kinematics step (rolled back on contact), wrapped and clamped, displaced
\* along the bounce direction by bounceSpeed * (remaining / duration)^2 * dt;
\* on a physics tick at or after the expiry no offset is applied. Between
\* collisions the decay factor never increases and an expired bounce stays
\* expired.
C26_BounceDecays ==
  /\ [](PhysicsTick =>
          IF BounceActive
          THEN /\ step.post.x = pushed(wrapAndClamp(bounceBase), collisionBounceDir,
                                       bounceMagnitude).x
               /\ step.post.y = pushed(wrapAndClamp(bounceBase), collisionBounceDir,
                                       bounceMagnitude).y
          ELSE /\ step.post.x = wrapAndClamp(bounceBase).x
               /\ step.post.y = wrapAndClamp(bounceBase).y)
  /\ [][IF collisionBounceUntilMs' = collisionBounceUntilMs
        THEN /\ bounceScale' <= bounceScale
             /\ ~BounceActive => ~BounceActive'
        ELSE /\ ContactTick'
             /\ collisionBounceUntilMs' = now' + collisionBounceDurationMs
             /\ bounceScale' = UNIT]_vars

\* A tick after the collision, without contact, that the decayed bounce
\* still displaced.
C26_Witness ==
  /\ PhysicsTick
  /\ ~step.contact
  /\ BounceActive
  /\ bounceScale < UNIT
  /\ bounceMagnitude > 0
  /\ step.post.x # wrapAndClamp(bounceBase).x

\* C27: in every state between frames and events a pending reset implies
\* the latch: winResetAtMs is set only if winLatched is true.
C27_PendingImpliesLatched == winResetAtMs # Null => winLatched

\* A reset is pending and latched after a drag move took the car out of the
\* target.
C27_Witness ==
  /\ winResetAtMs # Null
  /\ winLatched
  /\ step.op = "mousemove"
  /\ ~inSpace(This)

\* Wins the model can count under SpecLive.
MaxLiveWins == 1

\* C28: if frames keep being delivered and the clock keeps advancing, every
\* scheduled reset eventually fires: from any state with winResetAtMs set
\* the game reaches a state with winResetAtMs null, winLatched false and
\* winCount one higher, whatever input arrives in between.
C28_ResetEventuallyFires ==
  \A n \in 0..MaxLiveWins :
    (winResetAtMs # Null /\ winCount = n)
      ~> (winResetAtMs = Null /\ ~winLatched /\ winCount = n + 1)

\* A reset that fired although a drag move had taken the car out of the
\* target, to the canvas corner, while it was pending.
C28_Witness ==
  /\ IsFrame
  /\ step.fired
  /\ step.branch = "linger"
  /\ step.pre.x = DragMarginPx * PX
  /\ winCount = 1
  /\ winResetAtMs = Null
  /\ ~winLatched

\* C29: drag suppresses physics but not win detection. A frame that starts
\* with a drag active, the car's center inside the target, the heading
\* aligned and the latch clear takes the drag branch, leaves the car where
\* it is with speed 0, latches the win and schedules the reset; and a frame
\* at or after the scheduled time fires the reset and respawns the car
\* although the drag is still active.
C29_DragWins ==
  [][(step'.op = "frame" /\ isDragging) =>
       /\ (CenterInTarget /\ wellAligned(car.angle) /\ ~winLatched) =>
            /\ step'.branch = "drag"
            /\ car'.speed = 0
            /\ car'.x = car.x /\ car'.y = car.y
            /\ winLatched'
            /\ winResetAtMs' = now' + winResetDelayMs
       /\ (winResetAtMs # Null /\ now' >= winResetAtMs) =>
            /\ step'.fired
            /\ isDragging'
            /\ winCount' = winCount + 1
            /\ car'.x = centerX - ((gapBetweenCars' * PX) \div 2 + CarWidth * PX)
                        - SpawnBackPx * PX
            /\ car'.y = curbTop - LaneGapFromCurbPx * PX - CarHeight * PX
                        - SpawnUpPx * PX
            /\ car'.angle = 0 /\ car'.speed = 0]_vars

\* A reset that took the car from the target to the spawn pose while the
\* drag was still active.
C29_Witness ==
  /\ IsFrame
  /\ step.fired
  /\ isDragging
  /\ step.pre.x = parkingSpace.x /\ step.pre.y = parkingSpace.y
  /\ car.x # step.pre.x
  /\ winCount = 1

\* The collision polygon of the car c overlaps a parked car or the curb, by
\* the program's own test against the current layout.
overlapsObstacle(c) == collideWith(This, playerPolygon(c)).hit

\* C30: a physics tick that starts from a pose whose collision polygon
\* overlaps no parked car and not the curb ends in such a pose.
C30_StaysClear ==
  (PhysicsTick /\ ~overlapsObstacle(step.pre)) => ~overlapsObstacle(step.post)

====
